---- MODULE Spec2Model ----
(***************************************************************************)
(* The comment reconciliation engine of removeddit's thread page           *)
(* (src/src/pages/thread/index.js): class ChunkedQueue and class Thread    *)
(* with its contigs, its comment lookup, getComments and the handlers of   *)
(* componentDidUpdate.  Every action is one JavaScript task: a handler     *)
(* together with all the promise continuations (microtasks) it triggers.   *)
(***************************************************************************)
EXTENDS Integers, Sequences, FiniteSets, TLC

(***************************************************************************)
(* Bounds of the model.                                                    *)
(***************************************************************************)
NumComments == 4
PageSize == 2
RedditChunkSize == 2
MaxFills == 2
MaxEvents == 2
RaceEvents == 3
MergeIdCount == 2
MaxPushes == 5
MaxShifts == 4
MaxContext == 2
ContextEvents == 2

(***************************************************************************)
(* Program constants and the encoding of JavaScript's undefined / NaN.     *)
(***************************************************************************)
EARLIEST_CREATED == 1
Undefined == 0
ThreadID == 0
\* this.state.context while it is undefined
NoContext == -1

Ids == 1..NumComments
MergeIds == 1..MergeIdCount

\* global.maxComments (the initial download) and the amounts 'load more' asks for
maxComments == PageSize
LoadMoreCounts == {PageSize, 2 * PageSize}

\* The thread's comments: creation time and parent of comment i; comment i
\* answers comment i \div 2.  In the timeline Paired comments 2 and 3 share
\* a timestamp; in Tied all comments but the first do, more of them than a
\* page holds.
Paired == [i \in Ids |-> 1 + ((i + 2) \div 2)]
Tied == [i \in Ids |-> IF i = 1 THEN 2 ELSE 3]
parent_id(i) == IF i \div 2 = 0 THEN ThreadID ELSE i \div 2

ArchiveBodies == {"orig", "[removed]"}
LiveBodies == {"orig", "edit", "[removed]", "[deleted]"}

isRemoved(body) == body = "[removed]"
isDeleted(body) == body = "[deleted]"

\* Methods and identifiers the code refers to: the calls of
\* this.redditIdsToPushshift find no such method in class Thread (it defines
\* fullnamesToShortIDs), and useRedditComment names commentHint, which is
\* declared only inside getComments.
redditIdsToPushshiftDefined == FALSE
commentHintInScope == FALSE

(***************************************************************************)
(* The state of the component.                                             *)
(***************************************************************************)
VARIABLES
    contigs,                \* this.contigs
    curContigIdx,           \* this.curContigIdx (0-based, as in the code)
    pushshiftCommentLookup, \* this.state.pushshiftCommentLookup
    removed,                \* this.state.removed
    deleted,                \* this.state.deleted
    redditIdQueue,          \* this.redditIdQueue._chunks
    redditRequests,         \* pending getRedditComments batches (doRedditComments)
    stopLoading,            \* this.stopLoading
    loadingComments,        \* this.state.loadingComments
    reloadingComments,      \* this.state.reloadingComments
    commentID,              \* this.props.match.params.commentID (0: undefined)
    commentIdAttempts,      \* this.commentIdAttempts
    lookups,                \* pending getRedditComments([commentID]) of a permalink
    fills,                  \* the running invocations of getComments
    status,                 \* props.global: "loading", "success" or "error"
    uncaught,               \* an exception escaped every handler
    mounted,                \* componentWillUnmount has not run
    events,                 \* user events the run may still take
    archive,                \* the archival source: body of comment i, or "none"
    live,                   \* the live source: body of comment i, or "none"
    context,                \* this.state.context (NoContext: undefined)
    requestedContext,       \* the context parameter of the URL (0: none)
    parents,                \* pending getParentComments requests
    thread,                 \* created_utc of the thread's comments
    enqueued,               \* how often id i was given to this.redditIdQueue.push
    loadedAllComments,      \* this.state.loadedAllComments
    post,                   \* how far the retrieval of the post has come
    mountLookup,            \* pending getRedditComments([commentID]) of componentDidMount
    settled,                \* this.redditPromises holds a settled promise
    rounds,                 \* what the fill rounds that ended in the last task did
    batch,                  \* reconciliation runs: the kind of batch under test
    pushed,                 \* queue runs: the items given to push, in order
    shifted                 \* queue runs: the arrays shiftChunk returned, in order

vars == <<contigs, curContigIdx, pushshiftCommentLookup, removed, deleted,
          redditIdQueue, redditRequests, stopLoading, loadingComments,
          reloadingComments, commentID, commentIdAttempts, lookups, fills,
          status, uncaught, mounted, events, archive, live, context,
          requestedContext, parents, enqueued, loadedAllComments, post,
          mountLookup, settled, rounds, thread, batch, pushed, shifted>>

created_utc(i) == thread[i]

State ==
    [contigs |-> contigs, cur |-> curContigIdx, store |-> pushshiftCommentLookup,
     removed |-> removed, deleted |-> deleted, queue |-> redditIdQueue,
     reqs |-> redditRequests, stop |-> stopLoading, loading |-> loadingComments,
     reloading |-> reloadingComments, commentID |-> commentID,
     attempts |-> commentIdAttempts, lookups |-> lookups, fills |-> fills,
     status |-> status, uncaught |-> uncaught, archive |-> archive,
     live |-> live, ctx |-> context, reqCtx |-> requestedContext,
     parents |-> parents, enqueued |-> enqueued,
     loadedAll |-> loadedAllComments, post |-> post, mount |-> mountLookup,
     settled |-> settled, rounds |-> <<>>, more |-> 0, inUpdate |-> FALSE,
     pending |-> FALSE, overflow |-> FALSE]

Become(r) ==
    \E s \in {r} :
        /\ ~s.overflow
        /\ contigs' = s.contigs
        /\ curContigIdx' = s.cur
        /\ pushshiftCommentLookup' = s.store
        /\ removed' = s.removed
        /\ deleted' = s.deleted
        /\ redditIdQueue' = s.queue
        /\ redditRequests' = s.reqs
        /\ stopLoading' = s.stop
        /\ loadingComments' = s.loading
        /\ reloadingComments' = s.reloading
        /\ commentID' = s.commentID
        /\ commentIdAttempts' = s.attempts
        /\ lookups' = s.lookups
        /\ fills' = s.fills
        /\ status' = s.status
        /\ uncaught' = s.uncaught
        /\ archive' = s.archive
        /\ live' = s.live
        /\ context' = s.ctx
        /\ requestedContext' = s.reqCtx
        /\ parents' = s.parents
        /\ enqueued' = s.enqueued
        /\ loadedAllComments' = s.loadedAll
        /\ post' = s.post
        /\ mountLookup' = s.mount
        /\ settled' = s.settled
        /\ rounds' = s.rounds

(***************************************************************************)
(* Entries of the comment lookup (a Map from id to comment object).        *)
(*   k = "absent": the Map has no such key;  "undef": the key is mapped to *)
(*   undefined (a claimed parent);  "ps": an archival comment object;      *)
(*   "rd": a live comment object.                                          *)
(***************************************************************************)
Entry(k, body, score) ==
    [k |-> k, body |-> body, score |-> score, removed |-> FALSE,
     deleted |-> FALSE, edited_body |-> "none"]
Absent == Entry("absent", "none", "none")
Placeholder == Entry("undef", "none", "none")
PushshiftComment(s, id) == Entry("ps", s.archive[id], "ps")
RedditComment(s, id) == Entry("rd", s.live[id], "rd")

has(store, id) == store[id].k # "absent"
IsObject(e) == e.k \in {"ps", "rd"}

(***************************************************************************)
(* class ChunkedQueue                                                      *)
(***************************************************************************)
EmptyQueue == << <<>> >>

\* push with a slip: a chunk takes one item more than the chunk size.
pushOverfull(q, x) ==
    LET last == q[Len(q)]
    IN  IF Len(last) <= RedditChunkSize
        THEN [q EXCEPT ![Len(q)] = Append(last, x)]
        ELSE Append(q, <<x>>)

\* push with a slip: the item goes to the front of the last chunk.
pushFront(q, x) ==
    LET last == q[Len(q)]
    IN  IF Len(last) < RedditChunkSize
        THEN [q EXCEPT ![Len(q)] = <<x>> \o last]
        ELSE Append(q, <<x>>)

push(q, x) ==
    LET last == q[Len(q)]
    IN  IF Len(last) < RedditChunkSize
        THEN [q EXCEPT ![Len(q)] = Append(last, x)]
        ELSE Append(q, <<x>>)

hasFullChunk(q) == 10 * Len(q[1]) >= 9 * RedditChunkSize
isEmpty(q) == Len(q[1]) = 0

\* shiftChunk with a slip: it does not put back an empty chunk.
shiftChunkBare(q) == [chunk |-> Head(q), chunks |-> Tail(q)]

\* shiftChunk(): the chunk it returns and the chunks it leaves.
shiftChunk(q) ==
    [chunk |-> Head(q), chunks |-> IF Len(q) = 1 THEN EmptyQueue ELSE Tail(q)]

(***************************************************************************)
(* Contigs.  lastCreated = Undefined while no page has been recorded.      *)
(***************************************************************************)
Contig(first) == [firstCreated |-> first, lastCreated |-> Undefined,
                  loadedAllComments |-> FALSE]

HasCur(s) == s.cur + 1 \in 1..Len(s.contigs)
HasNext(s) == s.cur + 2 \in 1..Len(s.contigs)
curContig(s) == s.contigs[s.cur + 1]
nextContig(s) == s.contigs[s.cur + 2]

RemoveAt(seq, i) == SubSeq(seq, 1, i - 1) \o SubSeq(seq, i + 1, Len(seq))
InsertAt(seq, i, x) == SubSeq(seq, 1, i - 1) \o <<x>> \o SubSeq(seq, i, Len(seq))

\* mergeContigs with a slip: it removes the next contig and keeps the
\* current one as it is.
mergeContigsDropNext(s) ==
    IF /\ HasNext(s)
       /\ curContig(s).lastCreated # Undefined
       /\ curContig(s).lastCreated >= nextContig(s).firstCreated
    THEN [s EXCEPT !.contigs = RemoveAt(@, s.cur + 2)]
    ELSE s

\* mergeContigs with a slip: it reads nextContig.firstCreated without the
\* optional chaining, which raises a TypeError when no next contig exists.
mergeContigsUnchained(s) ==
    IF ~HasNext(s) THEN [s EXCEPT !.uncaught = TRUE]
    ELSE IF /\ curContig(s).lastCreated # Undefined
            /\ curContig(s).lastCreated >= nextContig(s).firstCreated
    THEN [s EXCEPT !.contigs =
            RemoveAt([@ EXCEPT ![s.cur + 2].firstCreated = curContig(s).firstCreated],
                     s.cur + 1)]
    ELSE s

\* mergeContigs: called with a current contig; a missing next contig or an
\* undefined lastCreated makes the comparison false (console.warn).
mergeContigs(s) ==
    IF /\ HasNext(s)
       /\ curContig(s).lastCreated # Undefined
       /\ curContig(s).lastCreated >= nextContig(s).firstCreated
    THEN [s EXCEPT !.contigs =
            RemoveAt([@ EXCEPT ![s.cur + 2].firstCreated = curContig(s).firstCreated],
                     s.cur + 1)]
    ELSE s

RECURSIVE componentDidUpdate(_)

\* this.setState(...), once the new values are written to s.  Called from a
\* promise continuation it renders at once, and componentDidUpdate runs
\* before setState returns; called inside componentDidUpdate the update
\* waits until componentDidUpdate has returned, which then runs again.
setState(s) ==
    IF s.inUpdate THEN [s EXCEPT !.pending = TRUE] ELSE componentDidUpdate(s)

\* setCurContig(idx) (lines 285-291): without a contig at idx line 288
\* raises a TypeError.
setCurContig(s, idx) ==
    LET s1 == [s EXCEPT !.cur = idx]
    IN  IF ~HasCur(s1) THEN [s1 EXCEPT !.uncaught = TRUE]
        ELSE IF s1.loadedAll # curContig(s1).loadedAllComments
        THEN setState([s1 EXCEPT !.loadedAll = curContig(s1).loadedAllComments])
        ELSE s1

(***************************************************************************)
(* useRedditComment(comment): installs a live comment as a fallback.  For  *)
(* a removed or deleted body the counter is incremented and the next       *)
(* statement, commentHint.removed = true, raises a ReferenceError.         *)
(* Result: the state and whether the call threw.                           *)
(***************************************************************************)
Flagged(e, body) ==
    [e EXCEPT !.removed = @ \/ isRemoved(body), !.deleted = @ \/ isDeleted(body)]

useRedditComment(s, id) ==
    LET body == s.live[id]
        counted == [s EXCEPT !.removed = @ + (IF isRemoved(body) THEN 1 ELSE 0),
                             !.deleted = @ + (IF isDeleted(body) THEN 1 ELSE 0)]
    IN  IF (isRemoved(body) \/ isDeleted(body)) /\ ~commentHintInScope
        THEN [s |-> counted, threw |-> TRUE]
        ELSE [s |-> [counted EXCEPT !.store[id] = RedditComment(s, id)],
              threw |-> FALSE]

\* ReconcileOne with a slip in the edited branch: it tests edited_body
\* instead of body and moves the previous body into edited_body.
ReconcileOneSwap(entry, id, body) ==
    IF ~IsObject(entry)
    THEN [entry |-> entry, removed |-> FALSE, deleted |-> FALSE, threw |-> TRUE]
    ELSE LET scored == [entry EXCEPT !.score = "rd"]
         IN  IF isRemoved(body)
             THEN [entry |-> [scored EXCEPT !.removed = TRUE],
                   removed |-> TRUE, deleted |-> FALSE, threw |-> FALSE]
             ELSE IF isDeleted(body)
             THEN [entry |-> [scored EXCEPT !.deleted = TRUE],
                   removed |-> FALSE, deleted |-> TRUE, threw |-> FALSE]
             ELSE IF isRemoved(entry.body)
             THEN [entry |-> scored, removed |-> FALSE, deleted |-> FALSE,
                   threw |-> TRUE]
             ELSE IF entry.edited_body # body
             THEN [entry |-> [scored EXCEPT !.edited_body = entry.body,
                                            !.body = body],
                   removed |-> FALSE, deleted |-> FALSE, threw |-> FALSE]
             ELSE [entry |-> scored, removed |-> FALSE, deleted |-> FALSE,
                   threw |-> FALSE]

(***************************************************************************)
(* The body of comments.forEach in doRedditComments (lines 491-519) for    *)
(* one live comment: the new entry, the counters' increments, and whether  *)
(* the iteration threw (a TypeError ends the forEach).                     *)
(***************************************************************************)
ReconcileOne(entry, id, body) ==
    IF ~IsObject(entry)
    THEN \* pushshiftComment === undefined: this.redditIdsToPushshift(comment)
         IF redditIdsToPushshiftDefined
         THEN [entry |-> Flagged(Entry("rd", body, "rd"), body),
               removed |-> isRemoved(body), deleted |-> isDeleted(body),
               threw |-> FALSE]
         ELSE [entry |-> entry, removed |-> FALSE, deleted |-> FALSE,
               threw |-> TRUE]
    ELSE LET scored == [entry EXCEPT !.score = "rd"]
         IN  IF isRemoved(body)
             THEN [entry |-> [scored EXCEPT !.removed = TRUE],
                   removed |-> TRUE, deleted |-> FALSE, threw |-> FALSE]
             ELSE IF isDeleted(body)
             THEN [entry |-> [scored EXCEPT !.deleted = TRUE],
                   removed |-> FALSE, deleted |-> TRUE, threw |-> FALSE]
             ELSE IF isRemoved(entry.body)
             THEN \* restored by a moderator: this.redditIdsToPushshift(comment)
                  IF redditIdsToPushshiftDefined
                  THEN [entry |-> Entry("rd", body, "rd"),
                        removed |-> FALSE, deleted |-> FALSE, threw |-> FALSE]
                  ELSE [entry |-> scored, removed |-> FALSE, deleted |-> FALSE,
                        threw |-> TRUE]
             ELSE IF entry.body # body
             THEN [entry |-> [scored EXCEPT !.edited_body = body],
                   removed |-> FALSE, deleted |-> FALSE, threw |-> FALSE]
             ELSE [entry |-> scored, removed |-> FALSE, deleted |-> FALSE,
                   threw |-> FALSE]

\* The comments the live source returns for a batch of ids: it silently
\* omits the ids it cannot find.
RedditResponse(s, ids) == SelectSeq(ids, LAMBDA i : s.live[i] # "none")

RECURSIVE ReconcileAll(_, _, _)
\* acc = [store, removed, deleted, threw]; comments are handled in order.
ReconcileAll(s, comments, acc) ==
    IF comments = <<>> \/ acc.threw
    THEN acc
    ELSE LET id == Head(comments)
             r == ReconcileOne(acc.store[id], id, s.live[id])
         IN  ReconcileAll(s, Tail(comments),
                 [store |-> [acc.store EXCEPT ![id] = r.entry],
                  removed |-> acc.removed + (IF r.removed THEN 1 ELSE 0),
                  deleted |-> acc.deleted + (IF r.deleted THEN 1 ELSE 0),
                  threw |-> r.threw])

\* doRedditCommentsThen with a slip: setState takes the counts of this
\* batch instead of adding them to the counters.
doRedditCommentsThenOverwrite(s, ids) ==
    LET acc == ReconcileAll(s, RedditResponse(s, ids),
                   [store |-> s.store, removed |-> 0, deleted |-> 0,
                    threw |-> FALSE])
    IN  IF acc.threw
        THEN [s EXCEPT !.store = acc.store, !.stop = TRUE, !.status = "error"]
        ELSE setState([s EXCEPT !.store = acc.store,
                                !.removed = acc.removed,
                                !.deleted = acc.deleted])

\* The .then and .catch of doRedditComments for a resolved batch (lines
\* 489-527): on a throw line 520 is not reached, and the catch reports the
\* error and sets stopLoading; otherwise setState (line 520) adds the
\* counters.
doRedditCommentsThen(s, ids) ==
    LET acc == ReconcileAll(s, RedditResponse(s, ids),
                   [store |-> s.store, removed |-> 0, deleted |-> 0,
                    threw |-> FALSE])
    IN  IF acc.threw
        THEN [s EXCEPT !.store = acc.store, !.stop = TRUE, !.status = "error"]
        ELSE setState([s EXCEPT !.store = acc.store,
                                !.removed = @ + acc.removed,
                                !.deleted = @ + acc.deleted])

\* The .catch of doRedditComments for a rejected batch.
doRedditCommentsCatch(s) == [s EXCEPT !.stop = TRUE, !.status = "error"]


(***************************************************************************)
(* Invocations of getComments ("fills").  pc:                              *)
(*   "idle"    no invocation in this slot                                  *)
(*   "page"    an archival page request is outstanding                     *)
(*   "proc"    paging is over; waiting for Promise.all(pushshiftPromises)  *)
(*   "reddit"  waiting for Promise.all(this.redditPromises)                *)
(*   "orphan"  the chain has ended, but sleep(0) tasks are still queued    *)
(* tasks are the pages handed to processPushshiftComments whose sleep(0)   *)
(* continuation has not run yet.  late records that the invocation         *)
(* started when stopLoading was already set, thenContext that the caller   *)
(* chained .then(() => this.setState({ context: 0 })) to it (line 248).    *)
(***************************************************************************)
IdleFill ==
    [pc |-> "idle", n |-> 0, persistent |-> FALSE, hint |-> 0,
     setState |-> FALSE, commentID |-> 0, after |-> 0, before |-> 0,
     fetched |-> 0, lastUtc |-> Undefined, loadedAll |-> FALSE,
     tasks |-> <<>>, count |-> 0, late |-> FALSE, thenContext |-> FALSE]

FreeSlots(s) == {f \in 1..MaxFills : s.fills[f].pc = "idle"}
FreeSlot(s) == CHOOSE f \in FreeSlots(s) : \A g \in FreeSlots(s) : f <= g

\* The chain of fill f has ended: its queued sleep(0) tasks still run.
EndFill(s, f) ==
    IF s.fills[f].tasks = <<>>
    THEN [s EXCEPT !.fills[f] = IdleFill]
    ELSE [s EXCEPT !.fills[f].pc = "orphan"]

\* doRedditComments(ids): dispatch a live batch and push its promise to
\* this.redditPromises.  waiters are the fills whose Promise.all holds it.
doRedditComments(s, ids) ==
    [s EXCEPT !.reqs = Append(@, [ids |-> ids, inArray |-> TRUE, waiters |-> <<>>])]

RECURSIVE DispatchFullChunks(_)
\* while (this.redditIdQueue.hasFullChunk()) doRedditComments(shiftChunk())
DispatchFullChunks(s) ==
    IF hasFullChunk(s.queue)
    THEN DispatchFullChunks(
             [doRedditComments(s, shiftChunk(s.queue).chunk) EXCEPT
                 !.queue = shiftChunk(s.queue).chunks])
    ELSE s

RECURSIVE FlushQueue(_)
\* while (!this.redditIdQueue.isEmpty()) doRedditComments(shiftChunk())
FlushQueue(s) ==
    IF ~isEmpty(s.queue)
    THEN FlushQueue(
             [doRedditComments(s, shiftChunk(s.queue).chunk) EXCEPT
                 !.queue = shiftChunk(s.queue).chunks])
    ELSE s

\* The archival source's answer to one page request: the archived comments
\* with after < created_utc < before (before = Undefined: unbounded),
\* ascending, at most PageSize of them.
\* InRange with a slip: the bounds fence one more second off on either
\* side.
InRangeFenced(s, i, after, before) ==
    /\ s.archive[i] # "none"
    /\ created_utc(i) > after + 1
    /\ before = Undefined \/ created_utc(i) < before - 1
InRange(s, i, after, before) ==
    /\ s.archive[i] # "none"
    /\ created_utc(i) > after
    /\ before = Undefined \/ created_utc(i) < before
Page(s, after, before) ==
    LET all == SelectSeq([i \in 1..NumComments |-> i],
                         LAMBDA i : InRange(s, i, after, before))
    IN  SubSeq(all, 1, IF Len(all) < PageSize THEN Len(all) ELSE PageSize)

\* ProcessOne with a slip: it queues the parent of a new comment without
\* looking whether the lookup has the parent.
ProcessOneParentAgain(s, f, id) ==
    IF has(s.store, id)
    THEN s
    ELSE LET s1 == [s EXCEPT !.store[id] = PushshiftComment(s, id),
                             !.queue = push(@, id),
                             !.enqueued[id] = @ + 1,
                             !.fills[f].count = @ + 1]
             p == parent_id(id)
         IN  IF s.fills[f].commentID = Undefined /\ p # ThreadID
             THEN [s1 EXCEPT !.queue = push(@, p), !.enqueued[p] = @ + 1]
             ELSE s1

\* comments.forEach of processPushshiftComments for one archival comment
\* (lines 466-477); cid is the commentID the invocation captured.
ProcessOne(s, f, id) ==
    IF has(s.store, id)
    THEN s
    ELSE LET s1 == [s EXCEPT !.store[id] = PushshiftComment(s, id),
                             !.queue = push(@, id),
                             !.enqueued[id] = @ + 1,
                             !.fills[f].count = @ + 1]
             p == parent_id(id)
         IN  IF s.fills[f].commentID = Undefined /\ p # ThreadID /\ ~has(s1.store, p)
             THEN [s1 EXCEPT !.store[p] = Placeholder, !.queue = push(@, p),
                             !.enqueued[p] = @ + 1]
             ELSE s1

RECURSIVE ProcessAll(_, _, _)
ProcessAll(s, f, items) ==
    IF items = <<>> THEN s
    ELSE ProcessAll(ProcessOne(s, f, Head(items)), f, Tail(items))

\* The sleep(0) continuation of processPushshiftComments for the first
\* queued page of fill f (lines 463-482).
processPushshiftComments(s, f) ==
    LET items == Head(s.fills[f].tasks)
        s1 == ProcessAll(s, f, items)
    IN  [DispatchFullChunks(s1) EXCEPT !.fills[f].tasks = Tail(@)]

\* updateCurContig: the index of the contig of the URL's comment, or -1.
FindContig(s) ==
    IF s.commentID = Undefined
    THEN IF Len(s.contigs) > 0 /\ s.contigs[1].firstCreated = EARLIEST_CREATED
         THEN 0 ELSE -1
    ELSE IF IsObject(s.store[s.commentID]) /\ created_utc(s.commentID) > EARLIEST_CREATED
    THEN LET hits == {j \in 1..Len(s.contigs) :
                        /\ created_utc(s.commentID) >= s.contigs[j].firstCreated
                        /\ s.contigs[j].lastCreated # Undefined
                        /\ created_utc(s.commentID) <= s.contigs[j].lastCreated}
         IN  IF hits = {} THEN -1
             ELSE (CHOOSE j \in hits : \A k \in hits : j <= k) - 1
    ELSE -1
updateCurContig(s) ==
    IF FindContig(s) < 0 THEN s ELSE setCurContig(s, FindContig(s))

\* The continuation the caller chained to the promise getComments returned
\* (line 248), run when that promise is fulfilled.
thenContext(s, chained) ==
    IF chained THEN setState([s EXCEPT !.ctx = 0]) ELSE s

\* The .catch of getComments' chain (lines 604-612).
getCommentsCatch(s, f) ==
    LET chained == s.fills[f].thenContext
        s1 == [EndFill(s, f) EXCEPT !.status = "error"]
    IN  IF ~HasCur(s1)
        THEN [s1 EXCEPT !.uncaught = TRUE]
        ELSE thenContext(
               IF curContig(s1).lastCreated = Undefined
               THEN LET s2 == [s1 EXCEPT !.contigs = RemoveAt(@, s1.cur + 1)]
                    IN  IF Len(s2.contigs) > 0 /\ s2.cur >= Len(s2.contigs)
                        THEN setCurContig(s2, Len(s2.contigs) - 1)
                        ELSE s2
               ELSE s1,
               chained)

\* afterBound with a slip: it always starts from firstCreated.
afterBoundFromFirst(c) == c.firstCreated - 1

\* The bounds of the archival request (lines 531-532): lastCreated - 1 is
\* NaN for an undefined lastCreated and 0 for lastCreated = 1, and both are
\* falsy; without a next contig before is NaN, encoded as Undefined.
afterBound(c) ==
    IF c.lastCreated # Undefined /\ c.lastCreated - 1 # 0
    THEN c.lastCreated - 1
    ELSE c.firstCreated - 1
beforeBound(s) ==
    IF HasNext(s) THEN nextContig(s).firstCreated + 1 ELSE Undefined

\* The synchronous part of getComments (lines 455-536) in slot f, for a
\* state with a current contig.
startFill(s, f, n, persistent, hint, setSt) ==
    [s EXCEPT !.fills[f] =
        [IdleFill EXCEPT !.pc = "page", !.n = n, !.persistent = persistent,
                         !.hint = hint, !.setState = setSt,
                         !.commentID = s.commentID,
                         !.after = afterBound(curContig(s)),
                         !.before = beforeBound(s),
                         !.late = s.stop]]

\* getComments(newCommentCount, persistent, commentHint, setState) run in
\* slot f up to its return (lines 454-536); its continuations run after
\* the caller's remaining statements.
getComments(s, f, n, persistent, hint, setSt) ==
    IF ~HasCur(s)
    THEN [s EXCEPT !.uncaught = TRUE]   \* TypeError at this.curContig().lastCreated
    ELSE startFill(s, f, n, persistent, hint, setSt)

\* A call of getComments, which runs in the first free slot.
callGetComments(s, n, persistent, hint, setSt) ==
    IF ~HasCur(s) THEN [s EXCEPT !.uncaught = TRUE]
    ELSE IF FreeSlots(s) = {} THEN [s EXCEPT !.overflow = TRUE]
    ELSE getComments(s, FreeSlot(s), n, persistent, hint, setSt)

\* Lines 555-557.
comparing(s, f) ==
    IF s.fills[f].setState THEN [s EXCEPT !.status = "loading"] ELSE s

\* this.redditPromises.splice(0) (line 580)
splice(s) ==
    [s EXCEPT !.reqs = [i \in 1..Len(s.reqs) |-> [s.reqs[i] EXCEPT !.inArray = FALSE]],
              !.settled = FALSE]

\* Lines 588-597: completion is reported, and the state takes the
\* loadedAllComments of the current contig.
finalize(s) ==
    setState([s EXCEPT !.status = "success",
                       !.loadedAll = curContig(s).loadedAllComments,
                       !.loading = FALSE, !.reloading = FALSE])

\* The round of fill f that ends in state s is repeated (r is the state the
\* continuation leaves): the same fill asks for the missing number of
\* comments, and no completion is reported.
Recursed(s, r, f) ==
    /\ r.fills[f].pc = "page"
    /\ r.fills[f].persistent
    /\ r.fills[f].n = s.fills[f].n - s.fills[f].count
    /\ r.status = s.status
    /\ r.loading = s.loading /\ r.reloading = s.reloading
\* The round of fill f is final: completion is reported, after which the
\* update that follows may start loading something else.
Finalized(s, r, f) ==
    /\ ~r.fills[f].persistent
    /\ r = finalize([splice(s) EXCEPT !.fills[f] = IdleFill])

\* The record of a round that was not cancelled, kept for the task in which
\* it ends: persistent, newCommentCount (n) and pushshiftComments (count) of
\* the invocation, whether the current contig is still open (line 582), and
\* what the continuation did.
RoundRecord(s, r, f) ==
    [persistent |-> s.fills[f].persistent,
     n |-> s.fills[f].n,
     count |-> s.fills[f].count,
     open |-> HasCur(s) /\ ~curContig(s).loadedAllComments,
     outcome |-> IF ~HasCur(s) THEN (IF r.uncaught THEN "threw" ELSE "other")
                 ELSE IF Recursed(s, r, f) THEN "recursed"
                 ELSE IF Finalized(s, r, f) THEN "finalized"
                 ELSE "other"]
roundEnded(s, f, r) == [r EXCEPT !.rounds = Append(@, RoundRecord(s, r, f))]

\* allRedditThen with a slip: the round is repeated only when it brought
\* fewer new comments than the target less one page.
allRedditThenStrict(s, f) ==
    LET fl == s.fills[f]
        s1 == [splice(s) EXCEPT !.fills[f] = IdleFill]
    IN  IF s1.stop THEN s1
        ELSE IF ~HasCur(s1) THEN roundEnded(s, f, [s1 EXCEPT !.uncaught = TRUE])
        ELSE IF /\ fl.persistent
                /\ ~curContig(s1).loadedAllComments
                /\ fl.n # 0
                /\ fl.count < fl.n - PageSize
        THEN roundEnded(s, f, getComments(s1, f, fl.n - fl.count, TRUE, fl.hint, TRUE))
        ELSE roundEnded(s, f, finalize(s1))

\* The .then of Promise.all(this.redditPromises) (lines 578-600).
allRedditThen(s, f) ==
    LET fl == s.fills[f]
        s1 == [splice(s) EXCEPT !.fills[f] = IdleFill]
    IN  IF s1.stop THEN s1
        ELSE IF ~HasCur(s1) THEN roundEnded(s, f, [s1 EXCEPT !.uncaught = TRUE])
        ELSE IF /\ fl.persistent
                /\ ~curContig(s1).loadedAllComments
                /\ fl.n # 0
                /\ fl.count <= fl.n - PageSize
        THEN roundEnded(s, f, getComments(s1, f, fl.n - fl.count, TRUE, fl.hint, TRUE))
        ELSE roundEnded(s, f, finalize(s1))

\* Promise.all(this.redditPromises) (line 578) once the queue is flushed:
\* of an array without a pending promise it is fulfilled at once, else
\* fill f waits for the promises the array holds now.
awaitReddit(s, f) ==
    IF \A i \in 1..Len(s.reqs) : ~s.reqs[i].inArray
    THEN allRedditThen(s, f)
    ELSE [s EXCEPT
           !.fills[f].pc = "reddit",
           !.reqs = [i \in 1..Len(s.reqs) |->
               IF s.reqs[i].inArray
               THEN [s.reqs[i] EXCEPT !.waiters = Append(@, f)]
               ELSE s.reqs[i]]]

\* The .then of Promise.all(pushshiftPromises) (lines 558-601).
allPushshiftThen(s, f) ==
    LET fl == s.fills[f]
        hint == fl.hint
        useHint == /\ hint # 0
                   /\ ~has(s.store, hint)
        inBounds == /\ created_utc(hint) >= curContig(s).firstCreated
                    /\ \/ /\ curContig(s).lastCreated # Undefined
                          /\ created_utc(hint) < curContig(s).lastCreated
                       \/ fl.loadedAll
        install == useHint /\ HasCur(s) /\ inBounds
        u == IF install THEN useRedditComment(s, hint)
             ELSE [s |-> s, threw |-> FALSE]
        s1 == IF install THEN [u.s EXCEPT !.fills[f].hint = 0] ELSE s
    IN  IF (useHint /\ ~HasCur(s)) \/ u.threw
        THEN getCommentsCatch(u.s, f)
        ELSE IF ~fl.setState
        THEN thenContext(EndFill(s1, f), fl.thenContext)
        ELSE awaitReddit(FlushQueue(s1), f)

\* Lines 552-558, once the contig is updated: a cancelled fill ends, and
\* Promise.all(pushshiftPromises) waits for the queued pages.
pagingDone(s, f) ==
    IF s.stop
    THEN thenContext(EndFill(s, f), s.fills[f].thenContext)
    ELSE IF s.fills[f].tasks = <<>>
    THEN allPushshiftThen(comparing(s, f), f)
    ELSE [comparing(s, f) EXCEPT !.fills[f].pc = "proc"]

\* The .then of getPushshiftComments (lines 537-558) with the result
\* [lastCreatedUtc, curContigLoadedAll] of the paging, for n # 0.
contigUpdate(s, f, lastCreatedUtc, curContigLoadedAll) ==
    IF ~HasCur(s)
    THEN getCommentsCatch(s, f)
    ELSE LET before == s.fills[f].before
             s1 == IF curContigLoadedAll
                   THEN IF before # Undefined
                        THEN mergeContigs(
                               [s EXCEPT !.contigs[s.cur + 1].lastCreated = before - 1])
                        ELSE [s EXCEPT
                               !.contigs[s.cur + 1].lastCreated = lastCreatedUtc,
                               !.contigs[s.cur + 1].loadedAllComments = TRUE]
                   ELSE [s EXCEPT !.contigs[s.cur + 1].lastCreated = lastCreatedUtc]
         IN  pagingDone([s1 EXCEPT !.fills[f].loadedAll = curContigLoadedAll], f)

\* Lines 424-425: the context of the state follows a lower (or dropped)
\* context parameter.
lowersContext(s) == s.ctx # NoContext /\ s.reqCtx < s.ctx
resetContext(s) ==
    IF lowersContext(s) THEN setState([s EXCEPT !.ctx = s.reqCtx]) ELSE s

\* Lines 378-386: more context is requested than the state has; the
\* ancestors of the URL's comment are asked of the live source.  orig is
\* origContigIdx; first notes the firstCreated of the contig it designates
\* at that moment.
widenContext(s) ==
    LET s1 == [s EXCEPT !.ctx = s.reqCtx]
    IN  [(IF s1.loading THEN s1
          ELSE [setState([s1 EXCEPT !.reloading = TRUE]) EXCEPT
                   !.status = "loading"])
         EXCEPT !.parents = Append(@, [c |-> s.commentID, depth |-> s.reqCtx,
                                       orig |-> s.cur,
                                       first |-> IF HasCur(s)
                                                 THEN curContig(s).firstCreated
                                                 ELSE Undefined])]

\* Lines 302-306: the state in which 'load more' calls getComments.
loadMoreCall(s) ==
    updateCurContig([setState([s EXCEPT !.more = 0, !.reloading = TRUE]) EXCEPT
                        !.status = "loading"])

\* Lines 306-307: getComments(loadingMoreComments, true) of 'load more'.
\* Without a current contig line 531 raises a TypeError: componentDidUpdate
\* does not return, and the update of line 303 that waited for it is never
\* applied (reloadingComments keeps the value it had, was).
loadMore(s, n, was) ==
    IF ~HasCur(s)
    THEN [s EXCEPT !.uncaught = TRUE, !.pending = FALSE, !.reloading = was]
    ELSE IF FreeSlots(s) = {} THEN [s EXCEPT !.overflow = TRUE]
    ELSE resetContext(getComments(s, FreeSlot(s), n, TRUE, 0, TRUE))

\* Lines 324 and 424-425: getComments(maxComments) for the full thread.
loadFullThread(s) ==
    resetContext(getComments(s, FreeSlot(s), maxComments, FALSE, 0, TRUE))

\* Lines 378-425: the context is widened or follows the URL.
updateContext(s) ==
    IF s.ctx # NoContext /\ s.reqCtx > s.ctx
    THEN widenContext(s)
    ELSE resetContext(s)

\* One run of componentDidUpdate (lines 293-425), s.more being
\* global.state.loadingMoreComments.  A 'load more' starts a persistent
\* fill.  Otherwise, when nothing is loading and the URL's comment is in
\* no contig, it starts loading the full thread or looks the permalink up;
\* else it widens the context when the URL asks for more than the state
\* has.  The setState of line 329 takes effect after line 424 has read
\* the context.
didUpdate(s) ==
    IF s.more # 0
    THEN loadMore(loadMoreCall(s), s.more, s.reloading)
    ELSE IF ~s.loading /\ ~s.reloading /\ FindContig(s) < 0
    THEN IF s.commentID = Undefined
         THEN IF FreeSlots(s) = {} THEN [s EXCEPT !.overflow = TRUE]
              ELSE loadFullThread(
                     setCurContig(
                       [setState([s EXCEPT !.loading = TRUE]) EXCEPT
                           !.status = "loading",
                           !.contigs = <<Contig(EARLIEST_CREATED)>> \o @],
                       0))
         ELSE IF s.commentID \notin s.attempts
         THEN [setState([s EXCEPT !.reloading = TRUE,
                                  !.ctx = IF lowersContext(s) THEN s.reqCtx ELSE 0])
                  EXCEPT !.attempts = @ \cup {s.commentID},
                         !.status = "loading",
                         !.lookups = Append(@, s.commentID)]
         ELSE resetContext(s)
    ELSE updateContext(IF ~s.loading /\ ~s.reloading THEN updateCurContig(s)
                       ELSE s)

\* The end of a run of componentDidUpdate: it runs again when the run
\* called setState.
rerender(s) ==
    IF s.pending /\ ~s.overflow
    THEN componentDidUpdate([s EXCEPT !.inUpdate = FALSE, !.pending = FALSE])
    ELSE [s EXCEPT !.inUpdate = FALSE, !.pending = FALSE]

\* componentDidUpdate, run again for as long as a run of it called setState.
componentDidUpdate(s) ==
    rerender(didUpdate([s EXCEPT !.inUpdate = TRUE, !.pending = FALSE]))


(***************************************************************************)
(* The archival paging, getPushshiftComments(callback, threadID, n, after, *)
(* before): the answer to the outstanding page request of fill f.  The     *)
(* callback (processPushshiftComments, lines 461-485) queues a sleep(0)    *)
(* task for a non-empty page unless stopLoading is set, and its result     *)
(* !stopLoading lets the paging go on.  The paging ends with               *)
(* [lastCreatedUtc, curContigLoadedAll] when the page is not full, when n  *)
(* items were fetched or when the callback said stop; otherwise the next   *)
(* page starts one second before the last item.                            *)
(***************************************************************************)
getPushshiftComments(s, f) ==
    LET fl == s.fills[f]
        items == Page(s, fl.after, fl.before)
        s1 == IF Len(items) > 0 /\ ~s.stop
              THEN [s EXCEPT !.fills[f].tasks = Append(@, items)]
              ELSE s
        continue == ~s.stop
        curContigLoadedAll == Len(items) < PageSize
        lastCreatedUtc == IF Len(items) > 0 THEN created_utc(items[Len(items)])
                          ELSE fl.lastUtc
        fetched == fl.fetched + Len(items)
    IN  IF curContigLoadedAll \/ ~continue \/ fetched >= fl.n
        THEN contigUpdate(s1, f, lastCreatedUtc, curContigLoadedAll)
        ELSE [s1 EXCEPT !.fills[f].after = lastCreatedUtc - 1,
                        !.fills[f].lastUtc = lastCreatedUtc,
                        !.fills[f].fetched = fetched]

RECURSIVE settleWaiters(_, _)
\* The fills whose Promise.all(this.redditPromises) has just been fulfilled,
\* in the order in which they started to wait.
settleWaiters(s, ws) ==
    IF ws = <<>> THEN s
    ELSE LET f == Head(ws)
             ready == /\ s.fills[f].pc = "reddit"
                      /\ \A j \in 1..Len(s.reqs) :
                            \A k \in 1..Len(s.reqs[j].waiters) :
                                s.reqs[j].waiters[k] # f
         IN  settleWaiters(IF ready THEN allRedditThen(s, f) ELSE s, Tail(ws))

\* The finally-handler of the permalink lookup when Reddit gave no
\* created_utc (lines 363-374).
createdUtcNotFound(s) ==
    callGetComments(
        IF s.cur > 0 THEN setCurContig(s, s.cur - 1)
        ELSE IF HasCur(s) /\ curContig(s).firstCreated # EARLIEST_CREATED
        THEN [s EXCEPT !.contigs = <<Contig(EARLIEST_CREATED)>> \o @]
        ELSE s,
        maxComments, FALSE, 0, TRUE)

\* Lines 346-348 once the contig is inserted: when setCurContig raised,
\* the finally-handler finds no created_utc.
insertedThen(s, c) ==
    IF ~HasCur(s) THEN createdUtcNotFound(s)
    ELSE callGetComments(s, maxComments, FALSE, c, TRUE)

\* The .then of the permalink lookup getRedditComments([commentID]) for
\* comment c (lines 334-361); found: Reddit returned the comment.
permalinkThen(s, c, found) ==
    IF ~found THEN createdUtcNotFound(s)
    ELSE LET t == created_utc(c)
             later == {j \in 1..Len(s.contigs) : t < s.contigs[j].firstCreated}
             insertBefore == IF later = {} THEN Len(s.contigs)
                             ELSE (CHOOSE j \in later : \A k \in later : j <= k) - 1
         IN  IF \/ insertBefore = 0
                \/ /\ s.contigs[insertBefore].lastCreated # Undefined
                   /\ t >= s.contigs[insertBefore].lastCreated
             THEN insertedThen(
                    setCurContig(
                      [s EXCEPT !.contigs =
                          InsertAt(@, insertBefore + 1, Contig(t))],
                      insertBefore),
                    c)
             ELSE LET u == useRedditComment(s, c)
                  IN  IF u.threw THEN createdUtcNotFound(u.s)
                      ELSE setState(
                             [setCurContig(u.s, insertBefore - 1) EXCEPT
                                !.status = "success", !.loading = FALSE,
                                !.reloading = FALSE])

RECURSIVE Ancestors(_, _)
\* The chain of up to depth ancestors of comment c, the furthest first.
Ancestors(c, depth) ==
    IF depth = 0 \/ parent_id(c) = ThreadID THEN <<>>
    ELSE Ancestors(parent_id(c), depth - 1) \o <<parent_id(c)>>

\* The answer of the live source to getParentComments: the ancestors it has.
getParentComments(s, c, depth) ==
    SelectSeq(Ancestors(c, depth), LAMBDA i : s.live[i] # "none")

\* Promise.all(this.redditPromises) of an empty array is fulfilled at once.
ArrayEmpty(s) == ~s.settled /\ \A i \in 1..Len(s.reqs) : ~s.reqs[i].inArray

\* The .then and .finally of getParentComments for the request req (lines
\* 387-421).  For the first ancestor the lookup lacks, line 391 calls
\* this.redditIdsToPushshift, which raises a TypeError: the loop ends, no
\* later statement of it runs, and the rejection is handled nowhere.  When
\* the lookup has every ancestor, the last one starts getComments(0), whose
\* continuations run in the same task.  The finally-handler puts the cursor
\* back three microtasks after the loop has ended: after the continuation
\* of Promise.all(this.redditPromises) when that array is empty, before it
\* otherwise.
parentsFinally(s, req) == [s EXCEPT !.cur = req.orig]
parentsThen(s, req) ==
    LET comments == getParentComments(s, req.c, req.depth)
        missing == \E k \in 1..Len(comments) : ~has(s.store, comments[k])
        restored == parentsFinally(s, req)
    IN  IF comments = <<>> THEN restored
        ELSE IF missing /\ ~redditIdsToPushshiftDefined
        THEN [restored EXCEPT !.uncaught = TRUE]
        ELSE IF ~HasCur(s) THEN [restored EXCEPT !.uncaught = TRUE]
        ELSE IF FreeSlots(s) = {} THEN [s EXCEPT !.overflow = TRUE]
        ELSE LET f == FreeSlot(s)
                 s1 == comparing(getComments(s, f, 0, FALSE, 0, TRUE), f)
             IN  IF ArrayEmpty(FlushQueue(s1))
                 THEN parentsFinally(allPushshiftThen(s1, f), req)
                 ELSE allPushshiftThen(parentsFinally(s1, req), f)

(***************************************************************************)
(* The retrieval of the post (lines 122-219).  post is "reddit" while      *)
(* getPost is outstanding, "archive" while getPushshiftPost is outstanding *)
(* for a post Reddit returned deleted, removed or edited, "archive403" or  *)
(* "archive404" while it is outstanding after Reddit answered 403 or 404,  *)
(* and "done" afterwards.                                                  *)
(***************************************************************************)
\* this.setState({ post }) and setLoading('Loading comments...') while the
\* comments are loading (lines 131-133, 154-173, 193-200).
setLoadingComments(s) ==
    IF s.loading THEN [s EXCEPT !.status = "loading"] ELSE s
postFound(s) == setLoadingComments(setState([s EXCEPT !.post = "done"]))

\* setError and this.stopLoading = true (lines 177-178, 203-204, 210-211,
\* 216-217).
postFailed(s) == [s EXCEPT !.post = "done", !.status = "error", !.stop = TRUE]

\* The .then of getPost (lines 123-183); direct: the post needs no look at
\* the archive.
getPostThen(s, direct) ==
    IF direct THEN postFound(s) ELSE setState([s EXCEPT !.post = "archive"])

\* The .catch of getPost (lines 184-219) for an error of the given kind.
getPostCatch(s, kind) ==
    IF kind = "403" THEN [s EXCEPT !.post = "archive403"]
    ELSE IF kind = "404" THEN [s EXCEPT !.post = "archive404"]
    ELSE postFailed(s)

\* The .then of getPushshiftPost (lines 142-174 and 190-207); found: the
\* archive has the post.
getPushshiftPostThen(s, found) ==
    IF s.post = "archive404" /\ ~found THEN postFailed(s) ELSE postFound(s)

\* The .catch of getPushshiftPost (lines 175-181 and 208-212).
getPushshiftPostCatch(s) ==
    IF s.post = "archive" THEN setState(postFailed(s)) ELSE postFailed(s)

(***************************************************************************)
(* componentDidMount (lines 113-266).                                      *)
(***************************************************************************)
\* The values max_comments lets the initial download have (lines 221-224).
InitialCounts == {maxComments, 2 * maxComments}

\* The component as constructed (lines 59-77, 111, 452-453) for the URL of
\* comment c (Undefined: the full thread) with context parameter d, on the
\* given sources.
Constructed(a, l, c, d) ==
    [contigs |-> <<>>, cur |-> 0, store |-> [i \in Ids |-> Absent],
     removed |-> 0, deleted |-> 0, queue |-> EmptyQueue, reqs |-> <<>>,
     stop |-> FALSE, loading |-> TRUE, reloading |-> FALSE, commentID |-> c,
     attempts |-> {}, lookups |-> <<>>,
     fills |-> [f \in 1..MaxFills |-> IdleFill], status |-> "loading",
     uncaught |-> FALSE, archive |-> a, live |-> l, ctx |-> NoContext,
     reqCtx |-> d, parents |-> <<>>, enqueued |-> [i \in Ids |-> 0],
     loadedAll |-> FALSE, post |-> "none", mount |-> <<>>, settled |-> FALSE,
     rounds |-> <<>>, more |-> 0, inUpdate |-> FALSE, pending |-> FALSE, overflow |-> FALSE]

\* componentDidMount, n being the number of comments of the initial
\* download (lines 221-224).
componentDidMount(s, n) ==
    LET s1 == [s EXCEPT !.status = "loading", !.post = "reddit"]
    IN  IF s.commentID = Undefined
        THEN getComments([s1 EXCEPT !.contigs = <<Contig(EARLIEST_CREATED)>> \o @],
                         FreeSlot(s1), n, FALSE, 0, TRUE)
        ELSE [s1 EXCEPT !.attempts = @ \cup {s.commentID},
                        !.mount = <<[c |-> s.commentID, context |-> s.reqCtx > 0,
                                     n |-> n]>>]

\* The .catch of the lookup of componentDidMount (lines 254-257).
mountCatch(s, m) ==
    LET s1 == [s EXCEPT !.contigs = <<Contig(EARLIEST_CREATED)>> \o @]
    IN  IF FreeSlots(s1) = {} THEN [s1 EXCEPT !.overflow = TRUE]
        ELSE getComments(s1, FreeSlot(s1), m.n, FALSE, 0, TRUE)

\* The .then of the lookup of componentDidMount (lines 235-253); found:
\* Reddit returned the comment, which belongs to the thread.
mountThen(s, m, found) ==
    IF ~found
    THEN [s EXCEPT !.status = "error", !.loading = FALSE]   \* 'Invalid permalink'
    ELSE LET s1 == [s EXCEPT !.contigs = <<Contig(created_utc(m.c))>> \o @]
         IN  IF ~HasCur(s1) THEN mountCatch(s1, m)
             ELSE IF FreeSlots(s1) = {} THEN [s1 EXCEPT !.overflow = TRUE]
             ELSE LET f == FreeSlot(s1)
                  IN  IF m.context
                      THEN [getComments(s1, f, m.n, FALSE, m.c, FALSE) EXCEPT
                               !.fills[f].thenContext = TRUE]
                      ELSE [getComments(s1, f, m.n, FALSE, m.c, TRUE) EXCEPT
                               !.ctx = 0]

(***************************************************************************)
(* Initial states.  The two sources hold the thread's comments intact,     *)
(* except for one comment that either source may lack or hold with a       *)
(* placeholder or edited body.                                             *)
(***************************************************************************)
Sources(m, a, l) ==
    [archive |-> [i \in Ids |-> IF i = m THEN a ELSE "orig"],
     live |-> [i \in Ids |-> IF i = m THEN l ELSE "orig"]]

\* The variables have the values of the state s.
Is(s) ==
    /\ contigs = s.contigs
    /\ curContigIdx = s.cur
    /\ pushshiftCommentLookup = s.store
    /\ removed = s.removed
    /\ deleted = s.deleted
    /\ redditIdQueue = s.queue
    /\ redditRequests = s.reqs
    /\ stopLoading = s.stop
    /\ loadingComments = s.loading
    /\ reloadingComments = s.reloading
    /\ commentID = s.commentID
    /\ commentIdAttempts = s.attempts
    /\ lookups = s.lookups
    /\ fills = s.fills
    /\ status = s.status
    /\ uncaught = s.uncaught
    /\ archive = s.archive
    /\ live = s.live
    /\ context = s.ctx
    /\ requestedContext = s.reqCtx
    /\ parents = s.parents
    /\ enqueued = s.enqueued
    /\ loadedAllComments = s.loadedAll
    /\ post = s.post
    /\ mountLookup = s.mount
    /\ settled = s.settled
    /\ rounds = s.rounds

\* The page right after componentDidMount, for the URL of comment c with
\* context parameter d and an initial download of n comments, on the
\* sources src.
Mounted(src, c, d, n) ==
    /\ Is(componentDidMount(Constructed(src.archive, src.live, c, d), n))
    /\ mounted = TRUE
    /\ batch = "none"
    /\ pushed = <<>>
    /\ shifted = <<>>

\* The component while its first fill is running, with the given lookup,
\* pending live batches and queued pages of the first fill.
Loading(src, lookup, requests, pages) ==
    /\ Is([componentDidMount(Constructed(src.archive, src.live, Undefined, 0),
                             maxComments) EXCEPT
              !.store = lookup, !.reqs = requests, !.fills[1].tasks = pages])
    /\ mounted = TRUE
    /\ pushed = <<>>
    /\ shifted = <<>>

\* The pages a run starts on: <<m, a, l, c, n>> is the page opened on
\* comment c (Undefined: the full thread) with an initial download of n
\* comments, where the archive holds comment m as a and the live source
\* holds it as l.
Scenarios ==
    {<<1, "none", "orig", Undefined, maxComments>>,
     <<3, "orig", "[removed]", Undefined, maxComments>>,
     <<1, "orig", "orig", Undefined, 2 * maxComments>>,
     <<2, "none", "orig", 3, maxComments>>}

Init ==
    /\ thread = Paired
    /\ events = MaxEvents
    /\ \E sc \in Scenarios :
          /\ sc[5] \in InitialCounts
          /\ Mounted(Sources(sc[1], sc[2], sc[3]), sc[4], 0, sc[5])

\* The same page on a thread both sources hold intact, with more user
\* events to come.
InitRace ==
    /\ thread = Paired
    /\ events = RaceEvents
    /\ \E a \in {"orig", "none"} :
          Mounted(Sources(3, a, "orig"), Undefined, 0, maxComments)

Frame == UNCHANGED <<events, mounted, thread, batch, pushed, shifted>>

(***************************************************************************)
(* Actions: one per task of the event loop.                                *)
(***************************************************************************)
\* getPost is answered.
PostResolve(direct) ==
    /\ post = "reddit"
    /\ Become(getPostThen(State, direct))
    /\ Frame

\* getPost fails.
PostReject(kind) ==
    /\ post = "reddit"
    /\ Become(getPostCatch(State, kind))
    /\ Frame

\* getPushshiftPost is answered.
ArchivePostResolve(found) ==
    /\ post \in {"archive", "archive403", "archive404"}
    /\ Become(getPushshiftPostThen(State, found))
    /\ Frame

\* getPushshiftPost fails.
ArchivePostReject ==
    /\ post \in {"archive", "archive403", "archive404"}
    /\ Become(getPushshiftPostCatch(State))
    /\ Frame

\* The lookup of the permalink the page was opened with is answered.
MountResolve ==
    /\ mountLookup # <<>>
    /\ Become(mountThen([State EXCEPT !.mount = <<>>], mountLookup[1],
                        live[mountLookup[1].c] # "none"))
    /\ Frame

\* The lookup of the permalink the page was opened with fails.
MountReject ==
    /\ mountLookup # <<>>
    /\ Become(mountCatch([State EXCEPT !.mount = <<>>], mountLookup[1]))
    /\ Frame

\* An archival page request of fill f is answered.
PageResolve(f) ==
    /\ fills[f].pc = "page"
    /\ Become(getPushshiftComments(State, f))
    /\ Frame

\* An archival page request of fill f fails.
PageReject(f) ==
    /\ fills[f].pc = "page"
    /\ Become(getCommentsCatch(State, f))
    /\ Frame

\* The sleep(0) task of the oldest unprocessed page of fill f runs.
ProcessTask(f) ==
    /\ fills[f].tasks # <<>>
    /\ LET s1 == processPushshiftComments(State, f)
           fl == s1.fills[f]
       IN  Become(IF fl.tasks # <<>> THEN s1
                  ELSE IF fl.pc = "proc" THEN allPushshiftThen(s1, f)
                  ELSE IF fl.pc = "orphan" THEN [s1 EXCEPT !.fills[f] = IdleFill]
                  ELSE s1)
    /\ Frame

\* The task in which the answer to the live batch request i arrives: the
\* .then of doRedditComments, the update its setState brings, and the
\* Promise.all continuations of the fills that waited for it.
redditAnswered(s, i) ==
    doRedditCommentsThen([s EXCEPT !.reqs = RemoveAt(@, i),
                                   !.settled = @ \/ s.reqs[i].inArray],
                         s.reqs[i].ids)
redditResolved(s, i) == settleWaiters(redditAnswered(s, i), s.reqs[i].waiters)

\* The live batch request i is answered.
RedditResolve(i) ==
    /\ i \in 1..Len(redditRequests)
    /\ Become(redditResolved(State, i))
    /\ Frame

\* The live batch request i fails.
RedditReject(i) ==
    /\ i \in 1..Len(redditRequests)
    /\ LET req == redditRequests[i]
           s1 == [State EXCEPT !.reqs = RemoveAt(@, i),
                               !.settled = @ \/ req.inArray]
       IN  Become(settleWaiters(doRedditCommentsCatch(s1), req.waiters))
    /\ Frame

\* 'load more comments' or Reload was clicked: global.state has
\* loadingMoreComments = n, and the component is updated.
LoadMore(n) ==
    /\ mounted
    /\ events > 0
    /\ FreeSlots(State) # {}
    /\ Become(componentDidUpdate([State EXCEPT !.more = n]))
    /\ events' = events - 1
    /\ UNCHANGED <<mounted, thread, batch, pushed, shifted>>

\* The URL changes to comment c (Undefined: the full thread), without a
\* context parameter.
Navigate(c) ==
    /\ mounted
    /\ events > 0
    /\ <<c, 0>> # <<commentID, requestedContext>>
    /\ Become(componentDidUpdate([State EXCEPT !.commentID = c, !.reqCtx = 0]))
    /\ events' = events - 1
    /\ UNCHANGED <<mounted, thread, batch, pushed, shifted>>

\* The URL changes to comment c with the context parameter d.
NavigateContext(c, d) ==
    /\ mounted
    /\ events > 0
    /\ <<c, d>> # <<commentID, requestedContext>>
    /\ Become(componentDidUpdate([State EXCEPT !.commentID = c, !.reqCtx = d]))
    /\ events' = events - 1
    /\ UNCHANGED <<mounted, thread, batch, pushed, shifted>>

\* The getParentComments request k is answered.
ParentsResolve(k) ==
    /\ k \in 1..Len(parents)
    /\ Become(parentsThen([State EXCEPT !.parents = RemoveAt(@, k)], parents[k]))
    /\ Frame

\* The getParentComments request k fails: nothing handles the rejection,
\* and the finally-handler puts the cursor back.
ParentsReject(k) ==
    /\ k \in 1..Len(parents)
    /\ Become([State EXCEPT !.parents = RemoveAt(@, k), !.cur = parents[k].orig,
                            !.uncaught = TRUE])
    /\ Frame

\* The permalink lookup k is answered (found or not) or fails.
PermalinkResolve(k) ==
    /\ k \in 1..Len(lookups)
    /\ LET c == lookups[k]
           s1 == [State EXCEPT !.lookups = RemoveAt(@, k)]
       IN  Become(permalinkThen(s1, c, live[c] # "none"))
    /\ Frame

PermalinkReject(k) ==
    /\ k \in 1..Len(lookups)
    /\ Become(createdUtcNotFound([State EXCEPT !.lookups = RemoveAt(@, k)]))
    /\ Frame

\* The component is rendered again with the URL unchanged (the store behind
\* props.global or location.hash changed), and componentDidUpdate runs.
Render ==
    /\ mounted
    /\ Become(componentDidUpdate(State))
    /\ Frame

\* componentWillUnmount
Unmount ==
    /\ mounted
    /\ mounted' = FALSE
    /\ stopLoading' = TRUE
    /\ rounds' = <<>>
    /\ UNCHANGED <<contigs, curContigIdx, pushshiftCommentLookup, removed,
                   deleted, redditIdQueue, redditRequests, loadingComments,
                   reloadingComments, commentID, commentIdAttempts, lookups,
                   fills, status, uncaught, events, archive, live, context,
                   requestedContext, parents, enqueued, loadedAllComments,
                   post, mountLookup, settled, thread, batch, pushed, shifted>>

PostKinds == {"403", "404", "500"}

\* The answers to the requests for the post.
NextPost ==
    \/ \E direct \in BOOLEAN : PostResolve(direct)
    \/ \E kind \in PostKinds : PostReject(kind)
    \/ \E found \in BOOLEAN : ArchivePostResolve(found)
    \/ ArchivePostReject

\* The answer to the lookup of the permalink the page was opened with.
NextMount ==
    \/ MountResolve
    \/ MountReject

\* The answers to the requests for comments, and the user's events.
NextComments ==
    \/ \E f \in 1..MaxFills : PageResolve(f)
    \/ \E f \in 1..MaxFills : PageReject(f)
    \/ \E f \in 1..MaxFills : ProcessTask(f)
    \/ \E i \in 1..Len(redditRequests) : RedditResolve(i)
    \/ \E i \in 1..Len(redditRequests) : RedditReject(i)
    \/ \E n \in LoadMoreCounts : LoadMore(n)
    \/ \E c \in Ids \cup {Undefined} : Navigate(c)
    \/ \E k \in 1..Len(lookups) : PermalinkResolve(k)
    \/ \E k \in 1..Len(lookups) : PermalinkReject(k)
    \/ Render
    \/ Unmount

Next ==
    \/ NextPost
    \/ NextMount
    \/ NextComments

Spec == Init /\ [][Next]_vars

\* Runs in which the post is not retrieved before the run ends.
SpecRace == InitRace /\ [][NextComments]_vars

(***************************************************************************)
(* The page with context parameters in its URLs, on a thread that the live *)
(* source holds intact and whose second comment the archive may lack.      *)
(***************************************************************************)
InitContext ==
    /\ thread = Paired
    /\ events = ContextEvents
    /\ \E a \in {"orig", "none"}, url \in {<<Undefined, 0>>, <<4, 1>>} :
          Mounted(Sources(2, a, "orig"), url[1], url[2], maxComments)

NextContext ==
    \/ NextMount
    \/ NextComments
    \/ \E c \in Ids, d \in 1..MaxContext : NavigateContext(c, d)
    \/ \E k \in 1..Len(parents) : ParentsResolve(k)
    \/ \E k \in 1..Len(parents) : ParentsReject(k)

SpecContext == InitContext /\ [][NextContext]_vars

(***************************************************************************)
(* The page on a thread with more comments of one timestamp than a page    *)
(* holds, both sources intact.                                             *)
(***************************************************************************)
InitTied ==
    /\ thread = Tied
    /\ events = MaxEvents
    /\ Mounted(Sources(1, "orig", "orig"), Undefined, 0, maxComments)

SpecTied == InitTied /\ [][NextComments]_vars

(***************************************************************************)
(* The page on a thread of which the archive lacks one comment that the    *)
(* live source holds intact, removed or deleted.                           *)
(***************************************************************************)
HintBodies == {"orig", "[removed]", "[deleted]"}

InitHint ==
    /\ thread = Paired
    /\ events = MaxEvents
    /\ \E m \in Ids, l \in HintBodies :
          \E c \in {Undefined, m} :
              Mounted(Sources(m, "none", l), c, 0, maxComments)

NextHint ==
    \/ NextMount
    \/ NextComments

SpecHint == InitHint /\ [][NextHint]_vars

(***************************************************************************)
(* The page on a thread both sources hold intact, where every request is   *)
(* answered and answered successfully, and the user clicks 'load more'.    *)
(***************************************************************************)
InitLive ==
    /\ thread = Paired
    /\ events = MaxEvents
    /\ Mounted(Sources(1, "orig", "orig"), Undefined, 0, maxComments)

NextLive ==
    \/ PostResolve(TRUE)
    \/ \E f \in 1..MaxFills : PageResolve(f)
    \/ \E f \in 1..MaxFills : ProcessTask(f)
    \/ \E i \in 1..Len(redditRequests) : RedditResolve(i)
    \/ \E n \in LoadMoreCounts : LoadMore(n)
    \/ Render

\* Every outstanding archival request is answered, every queued sleep(0)
\* task runs and an outstanding live batch is answered.  The weak fairness
\* of ProcessTask and of RedditResolve is written out, with the guard of
\* the action as its enabling condition.
FairLive ==
    /\ \A f \in 1..MaxFills : WF_vars(PageResolve(f))
    /\ \A f \in 1..MaxFills :
          []<>(fills[f].tasks = <<>>) \/ []<><<ProcessTask(f)>>_vars
    /\ \/ []<>(redditRequests = <<>>)
       \/ []<><<\E i \in 1..Len(redditRequests) : RedditResolve(i)>>_vars

SpecLive == InitLive /\ [][NextLive]_vars /\ FairLive

(***************************************************************************)
(* Reconciliation runs: the handlers of a live batch (RedditResolve) and   *)
(* of an archival page (ProcessTask) applied to every lookup over          *)
(* MergeIds.  A run holds an optional earlier batch and then the same      *)
(* batch twice, answered in the order of dispatch.                         *)
(***************************************************************************)
Range(seq) == {seq[i] : i \in 1..Len(seq)}

\* The batches of ids a live request may carry, and the pages the archival
\* source may return (ascending).
LiveBatches ==
    {b \in UNION {[1..n -> MergeIds] : n \in 1..MergeIdCount} :
        \A i, j \in 1..Len(b) : i # j => b[i] # b[j]}
ArchivePages(a) ==
    {b \in LiveBatches : /\ \A i \in 1..Len(b) : a[b[i]] # "none"
                         /\ \A i \in 1..(Len(b) - 1) : b[i] < b[i + 1]}

Request(ids) == [ids |-> ids, inArray |-> TRUE, waiters |-> <<>>]

\* What a run knows of one comment: the kind of its lookup entry, its
\* archival body and its live body ("none": the source lacks it).  Only ids
\* the lookup has are ever queued for a live batch, and an archival record
\* in the lookup has the archive's body.
Cases ==
    ({"absent", "undef"} \X (ArchiveBodies \cup {"none"}) \X (LiveBodies \cup {"none"}))
        \cup ({"ps"} \X ArchiveBodies \X (LiveBodies \cup {"none"}))
Lookup(c) ==
    [i \in Ids |-> IF i \notin MergeIds \/ c[i][1] = "absent" THEN Absent
                   ELSE IF c[i][1] = "undef" THEN Placeholder
                   ELSE Entry("ps", c[i][2], "ps")]
PriorBatches == {b \in LiveBatches : Len(b) = 1} \cup {<<>>}

CaseSources(c) ==
    [archive |-> [i \in Ids |-> IF i \in MergeIds THEN c[i][2] ELSE "none"],
     live |-> [i \in Ids |-> IF i \in MergeIds THEN c[i][3] ELSE "none"]]

InitMerge ==
    \E c \in [MergeIds -> Cases] :
        /\ events = 0
        /\ thread = Paired
        /\ \/ /\ batch = "live"
              /\ \A i \in MergeIds : c[i][1] = "ps" \/ c[i][2] = "none"
              /\ \A i \in MergeIds : c[i][1] = "absent" => c[i][3] = "none"
              /\ \E b \in LiveBatches, prior \in PriorBatches :
                    /\ \A i \in Range(b) \cup Range(prior) : has(Lookup(c), i)
                    /\ Loading(CaseSources(c), Lookup(c),
                               (IF prior = <<>> THEN <<>> ELSE <<Request(prior)>>)
                                   \o <<Request(b), Request(b)>>,
                               <<>>)
           \/ /\ batch = "archive"
              /\ \A i \in MergeIds : c[i][3] = "none"
              /\ \E b \in ArchivePages([i \in MergeIds |-> c[i][2]]) :
                    Loading(CaseSources(c), Lookup(c), <<>>, <<b, b>>)

NextMerge ==
    \/ batch = "live" /\ RedditResolve(1)
    \/ batch = "archive" /\ ProcessTask(1)

SpecMerge == InitMerge /\ [][NextMerge]_vars

(***************************************************************************)
(* Queue runs: push and shiftChunk of a ChunkedQueue of chunk size         *)
(* RedditChunkSize called in any order, from its construction on.          *)
(***************************************************************************)
InitQueue ==
    /\ Loading(Sources(1, "orig", "orig"), [i \in Ids |-> Absent], <<>>, <<>>)
    /\ thread = Paired
    /\ events = 0
    /\ batch = "queue"

QueueFrame ==
    UNCHANGED <<contigs, curContigIdx, pushshiftCommentLookup, removed, deleted,
                redditRequests, stopLoading, loadingComments, reloadingComments,
                commentID, commentIdAttempts, lookups, fills, status, uncaught,
                mounted, events, archive, live, context, requestedContext,
                parents, enqueued, loadedAllComments, post, mountLookup,
                settled, rounds, thread, batch>>

QueuePush(x) ==
    /\ Len(pushed) < MaxPushes
    /\ redditIdQueue' = push(redditIdQueue, x)
    /\ pushed' = Append(pushed, x)
    /\ shifted' = shifted
    /\ QueueFrame

QueueShift ==
    /\ Len(shifted) < MaxShifts
    /\ redditIdQueue' = shiftChunk(redditIdQueue).chunks
    /\ shifted' = Append(shifted, shiftChunk(redditIdQueue).chunk)
    /\ pushed' = pushed
    /\ QueueFrame

NextQueue ==
    \/ \E x \in MergeIds : QueuePush(x)
    \/ QueueShift

SpecQueue == InitQueue /\ [][NextQueue]_vars

(***************************************************************************)
(* Properties.                                                             *)
(***************************************************************************)
Known(j) == contigs[j].lastCreated # Undefined

\* C1: in every reachable state the contig list is sorted ascending by
\* firstCreated and adjacent contigs do not overlap: where the earlier one
\* has a known lastCreated, the inclusive ranges [firstCreated, lastCreated]
\* share no timestamp.
ContigsSortedDisjoint ==
    \A j \in 1..(Len(contigs) - 1) :
        /\ contigs[j].firstCreated <= contigs[j + 1].firstCreated
        /\ Known(j) => contigs[j].lastCreated < contigs[j + 1].firstCreated

\* The weaker reading of C1 that lets adjacent contigs touch in one
\* timestamp: no contig reaches beyond the start of the next one.
ContigsDoNotCross ==
    \A j \in 1..(Len(contigs) - 1) :
        Known(j) => contigs[j].lastCreated <= contigs[j + 1].firstCreated

Intact(body) == body # "none" /\ ~isRemoved(body) /\ ~isDeleted(body)
Archival(id) == pushshiftCommentLookup[id].k = "ps"

\* A step that handles the answer to the oldest live batch of a
\* reconciliation run, and the comments that answer returns.
LiveStep ==
    /\ batch = "live"
    /\ redditRequests # <<>>
    /\ redditRequests' = Tail(redditRequests)
Returned(id) == id \in Range(redditRequests[1].ids) /\ live[id] # "none"

\* C2: when a live batch returns a comment with an intact body and the
\* lookup holds an archival record of it whose body is a removed
\* placeholder, the entry afterwards has the live body and no removed flag.
RestoredReplaced ==
    [][\A id \in MergeIds :
          (/\ LiveStep
           /\ Returned(id)
           /\ Intact(live[id])
           /\ Archival(id)
           /\ isRemoved(pushshiftCommentLookup[id].body))
          => /\ pushshiftCommentLookup'[id].body = live[id]
             /\ ~pushshiftCommentLookup'[id].removed]_vars

\* C3: when a live batch returns a comment whose body is a removed (resp.
\* deleted) placeholder and the lookup holds an archival record of it, the
\* entry afterwards is flagged removed (resp. deleted) and still has the
\* archival body.
PlaceholderFlagged ==
    [][\A id \in MergeIds :
          (LiveStep /\ Returned(id) /\ Archival(id))
          => /\ isRemoved(live[id]) =>
                  /\ pushshiftCommentLookup'[id].removed
                  /\ pushshiftCommentLookup'[id].body = pushshiftCommentLookup[id].body
             /\ isDeleted(live[id]) =>
                  /\ pushshiftCommentLookup'[id].deleted
                  /\ pushshiftCommentLookup'[id].body = pushshiftCommentLookup[id].body]_vars

\* C4: when a live batch returns a comment with an intact body that differs
\* from the body of the archival record in the lookup, and that body is no
\* removed placeholder, the entry afterwards keeps the archival body, has the
\* live body as edited_body and the live score as score.
EditKept ==
    [][\A id \in MergeIds :
          (/\ LiveStep
           /\ Returned(id)
           /\ Intact(live[id])
           /\ Archival(id)
           /\ live[id] # pushshiftCommentLookup[id].body
           /\ ~isRemoved(pushshiftCommentLookup[id].body))
          => /\ pushshiftCommentLookup'[id].body = pushshiftCommentLookup[id].body
             /\ pushshiftCommentLookup'[id].edited_body = live[id]
             /\ pushshiftCommentLookup'[id].score = "rd"]_vars

\* The second processing of the batch under test, right after the first.
SecondProcessing ==
    \/ /\ batch = "live"
       /\ Len(redditRequests) = 1
       /\ redditRequests' = <<>>
    \/ /\ batch = "archive"
       /\ Len(fills[1].tasks) = 1
       /\ fills'[1].tasks = <<>>

\* C5: processing the same archival page or live batch a second time right
\* after the first leaves the lookup (ids, records, flags and bodies) as the
\* first processing left it.
ReconcileIdempotent ==
    [][SecondProcessing => pushshiftCommentLookup' = pushshiftCommentLookup]_vars

\* A live batch was processed twice and flagged one record as removed and
\* another as edited.
ReconciledTwice ==
    /\ batch = "live"
    /\ redditRequests = <<>>
    /\ \E i, j \in MergeIds :
          /\ pushshiftCommentLookup[i].removed
          /\ pushshiftCommentLookup[j].edited_body = "edit"

\* A finalizing fill reports completion in this step: its wait for the live
\* requests ends with success.
CompletionReported ==
    /\ status' = "success"
    /\ ~stopLoading'
    /\ \E f \in 1..MaxFills :
          /\ fills[f].setState
          /\ fills[f].pc \in {"proc", "reddit"}
          /\ fills'[f].pc = "idle"

\* C6: a finalizing fill reports completion only when the queue of ids is
\* flushed empty and no live batch request, of this or of a concurrently
\* running fill, is still outstanding.
CompletionAfterAllLive ==
    [][CompletionReported => redditRequests' = <<>> /\ isEmpty(redditIdQueue')]_vars

\* C7: when a fill fails while the current contig has no lastCreated, that
\* contig is removed, the other contigs are unchanged, and the cursor moves
\* to the contig before the removed one and designates an existing contig.
FailedContigRemoved ==
    [][\A f \in 1..MaxFills :
          (/\ PageReject(f)
           /\ HasCur(State)
           /\ curContig(State).lastCreated = Undefined)
          => /\ contigs' = RemoveAt(contigs, curContigIdx + 1)
             /\ curContigIdx > 0 => curContigIdx' = curContigIdx - 1
             /\ curContigIdx' + 1 \in 1..Len(contigs')]_vars

\* C8: a fetch failure cancels only the load session it happened in: the
\* archival items of a fill started afterwards are still processed (a
\* non-empty page it receives is queued for processing), and the records
\* merged before stay in the lookup.
FailureCancelsOnlyItsSession ==
    [][/\ \A f \in 1..MaxFills :
            (/\ fills[f].late
             /\ PageResolve(f)
             /\ Page(State, fills[f].after, fills[f].before) # <<>>)
            => fills'[f].tasks # <<>>
       /\ \A i \in Ids : has(pushshiftCommentLookup, i) => has(pushshiftCommentLookup', i)]_vars

\* C9: once stopLoading is set, no continuation changes the lookup, the
\* removed/deleted counters or the contig list any more.
StopFreezesState ==
    [][(stopLoading /\ events' = events)
          => UNCHANGED <<pushshiftCommentLookup, removed, deleted, contigs>>]_vars

\* C10: when the paging of a fill ends with a non-empty page of fewer than
\* PageSize items and the current contig has no next contig, the current
\* contig afterwards has loadedAllComments = TRUE and the created_utc of the
\* last item returned as lastCreated.
PartialPageClosesContig ==
    [][\A f \in 1..MaxFills :
          LET items == Page(State, fills[f].after, fills[f].before)
          IN  (/\ fills[f].pc = "page"
               /\ PageResolve(f)
               /\ Len(items) \in 1..(PageSize - 1)
               /\ HasCur(State)
               /\ ~HasNext(State))
              => /\ contigs'[curContigIdx + 1].loadedAllComments
                 /\ contigs'[curContigIdx + 1].lastCreated
                        = created_utc(items[Len(items)])]_vars

\* The paging of fill f is about to end with a partial page while the fill
\* was started with a next contig (before is defined), and the state in
\* which mergeContigs is then called: the current contig's lastCreated has
\* just been set to before - 1 (lines 541-544).
MergeCalled(f) ==
    /\ fills[f].pc = "page"
    /\ fills[f].before # Undefined
    /\ Len(Page(State, fills[f].after, fills[f].before)) < PageSize
    /\ HasCur(State)
MergeCall(f) ==
    [State EXCEPT !.contigs[curContigIdx + 1].lastCreated = fills[f].before - 1]
Overlapping(s) ==
    HasNext(s) /\ curContig(s).lastCreated >= nextContig(s).firstCreated

\* C11: mergeContigs, called when the current contig's lastCreated is at
\* least the next contig's firstCreated, removes the current contig, gives
\* its firstCreated to the next contig, which keeps its lastCreated and
\* loadedAllComments, leaves every other contig as it was, and leaves the
\* cursor on the merged contig.
MergeAbsorbsCurrent ==
    \A f \in 1..MaxFills :
        (MergeCalled(f) /\ Overlapping(MergeCall(f)))
        => LET s == MergeCall(f)
               m == mergeContigs(s)
               i == s.cur + 1
           IN  /\ Len(m.contigs) = Len(s.contigs) - 1
               /\ m.cur = s.cur
               /\ m.contigs[i].firstCreated = s.contigs[i].firstCreated
               /\ m.contigs[i].lastCreated = s.contigs[i + 1].lastCreated
               /\ m.contigs[i].loadedAllComments = s.contigs[i + 1].loadedAllComments
               /\ \A j \in 1..(i - 1) : m.contigs[j] = s.contigs[j]
               /\ \A j \in (i + 1)..Len(m.contigs) : m.contigs[j] = s.contigs[j + 1]
               /\ [m EXCEPT !.contigs = s.contigs] = s

\* mergeContigs is about to be called on overlapping contigs where the next
\* contig has a lastCreated of its own and a third contig follows.
MergeOfFilledNext ==
    \E f \in 1..MaxFills :
        /\ MergeCalled(f)
        /\ Overlapping(MergeCall(f))
        /\ nextContig(State).lastCreated # Undefined
        /\ Len(mergeContigs(MergeCall(f)).contigs) = Len(contigs) - 1
        /\ Len(contigs) > curContigIdx + 2

\* C17: mergeContigs, called when the current contig's lastCreated is less
\* than the next contig's firstCreated or when there is no next contig,
\* raises no error and leaves the contig list and the cursor unchanged, and
\* the fill goes on: the step that makes the call does not end in the
\* fill's error handler.
MergeConflictHarmless ==
    [][\A f \in 1..MaxFills :
          (MergeCalled(f) /\ ~Overlapping(MergeCall(f)) /\ PageResolve(f))
          => /\ mergeContigs(MergeCall(f)) = MergeCall(f)
             /\ uncaught' = uncaught
             /\ status' = "error" => status = "error"]_vars

\* mergeContigs is about to be called without a next contig, or with a next
\* contig that starts after the current one ends.
MergeConflictSeen ==
    \E f \in 1..MaxFills : MergeCalled(f) /\ ~Overlapping(MergeCall(f))

Times == EARLIEST_CREATED..(Paired[NumComments] + 1)

\* The fill that getComments(n) starts in slot f from the present state.
Started(f, n) == getComments(State, f, n, FALSE, 0, TRUE).fills[f]

\* C14: the archival request of every fill has after = lastCreated - 1 of
\* the current contig when its lastCreated is known, for every lastCreated
\* from EARLIEST_CREATED on, and firstCreated - 1 otherwise; and it has
\* before = firstCreated + 1 of the next contig when there is one and no
\* before bound otherwise.
FillBounds ==
    /\ \A f \in 1..MaxFills : \A n \in LoadMoreCounts :
          HasCur(State)
          => /\ Started(f, n).after =
                   IF curContig(State).lastCreated # Undefined
                   THEN curContig(State).lastCreated - 1
                   ELSE curContig(State).firstCreated - 1
             /\ Started(f, n).before =
                   IF HasNext(State) THEN nextContig(State).firstCreated + 1
                   ELSE Undefined
    /\ \A first \in Times : \A last \in {l \in Times : l >= first} :
          afterBound([Contig(first) EXCEPT !.lastCreated = last]) = last - 1

\* A fill has just been started on a contig with a known lastCreated and
\* with a next contig.
FillStartedBetween ==
    \E f \in 1..MaxFills :
        /\ fills[f].pc = "page"
        /\ fills[f].fetched = 0
        /\ HasCur(State)
        /\ HasNext(State)
        /\ curContig(State).lastCreated # Undefined
        /\ fills[f].after = curContig(State).lastCreated - 1
        /\ fills[f].before = nextContig(State).firstCreated + 1

\* The number of places id holds in the queue of ids and in the pending
\* live batches.
Occurrences(q, reqs, id) ==
    Cardinality({ck \in (1..Len(q)) \X (1..RedditChunkSize) :
                    ck[2] <= Len(q[ck[1]]) /\ q[ck[1]][ck[2]] = id})
    + Cardinality({rk \in (1..Len(reqs)) \X (1..RedditChunkSize) :
                    rk[2] <= Len(reqs[rk[1]].ids) /\ reqs[rk[1]].ids[rk[2]] = id})

\* A page request of fill f is outstanding and will return comment id, which
\* an earlier page request has already returned (it is recorded in the
\* lookup as an archival record) and which lies exactly on the current
\* contig's lastCreated, the request being the fill's first, or on the next
\* contig's firstCreated.
BoundaryRefetched(f, id) ==
    /\ fills[f].pc = "page"
    /\ HasCur(State)
    /\ Archival(id)
    /\ id \in Range(Page(State, fills[f].after, fills[f].before))
    /\ \/ /\ fills[f].fetched = 0
          /\ curContig(State).lastCreated # Undefined
          /\ fills[f].after = curContig(State).lastCreated - 1
          /\ created_utc(id) = curContig(State).lastCreated
       \/ /\ HasNext(State)
          /\ fills[f].before = nextContig(State).firstCreated + 1
          /\ created_utc(id) = nextContig(State).firstCreated

Apart(s) ==
    \/ ~HasNext(s)
    \/ (IF curContig(s).lastCreated # Undefined THEN curContig(s).lastCreated
        ELSE curContig(s).firstCreated) <= nextContig(s).firstCreated

\* The bounds that getComments computes in the present state lie outside
\* both boundaries: the page requested with them returns the archived
\* comments created exactly at the current contig's lastCreated, and the
\* archived comments created exactly at the next contig's firstCreated are
\* inside its range.
BoundaryItemsRequested ==
    (HasCur(State) /\ Apart(State))
    => /\ curContig(State).lastCreated # Undefined
          => \A id \in Ids :
                (archive[id] # "none"
                 /\ created_utc(id) = curContig(State).lastCreated)
                => id \in Range(Page(State, afterBound(curContig(State)),
                                     beforeBound(State)))
       /\ HasNext(State)
          => \A id \in Ids :
                (archive[id] # "none"
                 /\ created_utc(id) = nextContig(State).firstCreated)
                => InRange(State, id, afterBound(curContig(State)),
                           beforeBound(State))

\* The page processing skips a comment the lookup already has: its entry
\* stays as it is, it is not queued for the live source again, and the
\* page adds to the count of new comments only the comments the lookup
\* lacked.
KnownItemSkipped ==
    \A f \in 1..MaxFills : \A id \in Ids :
        (/\ fills[f].tasks # <<>>
         /\ id \in Range(Head(fills[f].tasks))
         /\ has(pushshiftCommentLookup, id)
         /\ ProcessTask(f))
        => /\ pushshiftCommentLookup'[id] = pushshiftCommentLookup[id]
           /\ Occurrences(redditIdQueue', redditRequests', id)
                = Occurrences(redditIdQueue, redditRequests, id)
           /\ processPushshiftComments(State, f).fills[f].count
                = fills[f].count
                  + Cardinality({j \in Range(Head(fills[f].tasks)) :
                                    ~has(pushshiftCommentLookup, j)})

Omitted(id) ==
    /\ LiveStep
    /\ id \in Range(redditRequests[1].ids)
    /\ live[id] = "none"

\* C16: when the answer to a live batch omits an id that was queued, no
\* error is raised (an answer that omits every id reports none) and the
\* lookup is unaffected for that id: an archival record stays exactly as it
\* was, and an id that was queued only as a missing parent is absent from
\* the lookup and not counted in its size.
OmittedIdUnaffected ==
    [][/\ \A id \in MergeIds :
            Omitted(id)
            => /\ Archival(id) => pushshiftCommentLookup'[id] = pushshiftCommentLookup[id]
               /\ ~Archival(id) => ~has(pushshiftCommentLookup', id)
       /\ (LiveStep /\ \A id \in Range(redditRequests[1].ids) : live[id] = "none")
            => status' = status /\ stopLoading' = stopLoading]_vars

RECURSIVE Flatten(_)
\* The items of a sequence of arrays, in order.
Flatten(chunks) ==
    IF chunks = <<>> THEN <<>> ELSE Head(chunks) \o Flatten(Tail(chunks))

\* C18: every array shiftChunk has returned holds at most chunk size items.
ShiftedChunksBounded ==
    \A k \in 1..Len(shifted) : Len(shifted[k]) <= RedditChunkSize

\* shiftChunk has returned a chunk of exactly chunk size items while more
\* items than that had been pushed.
FullChunkShifted ==
    /\ batch = "queue"
    /\ Len(pushed) > RedditChunkSize
    /\ \E k \in 1..Len(shifted) : Len(shifted[k]) = RedditChunkSize

\* C19: in every state of a ChunkedQueue, also right after construction
\* and right after a shiftChunk that removed the only chunk, the list of
\* chunks holds at least one (possibly empty) chunk, so that shiftChunk
\* always has an array to return.
AlwaysOneChunk == Len(redditIdQueue) >= 1

\* shiftChunk has just removed the only chunk, which held items, and the
\* list of chunks is one empty chunk again.
OnlyChunkShifted ==
    /\ batch = "queue"
    /\ shifted # <<>>
    /\ shifted[Len(shifted)] # <<>>
    /\ Len(Flatten(shifted)) = Len(pushed)
    /\ redditIdQueue = EmptyQueue

\* C20: the arrays shiftChunk has returned, concatenated in the order of
\* their return, followed by the items the queue still holds, are the
\* pushed items in the order of their push.
QueueIsFifo == Flatten(shifted) \o Flatten(redditIdQueue) = pushed

\* Items were pushed and shifted in turns: some have been returned in more
\* than one array, and others are still held in more than one chunk.
QueueInterleaved ==
    /\ batch = "queue"
    /\ Len(pushed) = MaxPushes
    /\ Cardinality({k \in 1..Len(shifted) : shifted[k] # <<>>}) >= 2
    /\ Len(redditIdQueue) >= 2
    /\ \E i, j \in 1..Len(pushed) : pushed[i] # pushed[j]

StrictlyAscending(cs) ==
    \A j \in 1..(Len(cs) - 1) : cs[j].firstCreated < cs[j + 1].firstCreated

\* C12: inserting a contig for a timestamp leaves the list sorted by
\* firstCreated without two contigs of the same firstCreated: where a
\* contig with that firstCreated exists, none is added.
InsertKeepsFirstsDistinct ==
    [][\A k \in 1..Len(lookups) :
          (PermalinkResolve(k) /\ StrictlyAscending(contigs))
          => StrictlyAscending(contigs')]_vars

\* Comment a is absent from the lookup, and its timestamp lies below the
\* firstCreated of contig j and inside the range of the contig before it.
InsidePrevious(a, j) ==
    /\ j \in 2..Len(contigs)
    /\ ~has(pushshiftCommentLookup, a)
    /\ created_utc(a) < contigs[j].firstCreated
    /\ \A i \in 1..(j - 1) : created_utc(a) >= contigs[i].firstCreated
    /\ contigs[j - 1].lastCreated # Undefined
    /\ created_utc(a) < contigs[j - 1].lastCreated

\* C15: when the context expansion meets an ancestor that the lookup lacks
\* and whose timestamp lies below the next contig's firstCreated but inside
\* the previous contig's range, the ancestor is installed in the lookup as
\* a live record, the number of contigs is unchanged, and the previous
\* contig is unchanged.
ContextFallbackInstalled ==
    [][\A k \in 1..Len(parents) : \A a \in Ids : \A j \in 2..Len(contigs) :
          (/\ ParentsResolve(k)
           /\ a \in Range(getParentComments(State, parents[k].c, parents[k].depth))
           /\ InsidePrevious(a, j))
          => /\ pushshiftCommentLookup'[a].k = "rd"
             /\ Len(contigs') = Len(contigs)
             /\ contigs'[j - 1] = contigs[j - 1]]_vars

\* C21: across a whole run every comment id is given to the queue of ids
\* at most once, and the lookup has the id (as a record or as a placeholder)
\* from the moment it is queued; a missing parent is queued once, however
\* many of its children the pages bring.
QueuedOnce ==
    \A id \in Ids :
        /\ enqueued[id] <= 1
        /\ enqueued[id] > 0 => has(pushshiftCommentLookup, id)

\* Two children of a comment the archive lacks have been recorded, and
\* their parent has been queued.
SharedParentQueued ==
    \E p \in Ids : \E c, d \in Ids :
        /\ c # d
        /\ parent_id(c) = p /\ parent_id(d) = p
        /\ archive[p] = "none"
        /\ pushshiftCommentLookup[c].k = "ps"
        /\ pushshiftCommentLookup[d].k = "ps"
        /\ enqueued[c] = 1 /\ enqueued[d] = 1
        /\ enqueued[p] = 1

\* The lookup and the counters after the live batches i and then j of the
\* present state have been answered (j counted before i was removed).
AnsweredInOrder(i, j) ==
    LET s == redditResolved(redditResolved(State, i), IF j > i THEN j - 1 ELSE j)
    IN  [store |-> s.store, removed |-> s.removed, deleted |-> s.deleted,
         overflow |-> s.overflow]

\* C22: when several live batches are outstanding at once, the lookup and
\* the removed and deleted counters after their answers are the same for
\* every order in which the answers arrive.
LiveOrderIrrelevant ==
    \A i, j \in 1..Len(redditRequests) :
        (i < j /\ ~AnsweredInOrder(i, j).overflow /\ ~AnsweredInOrder(j, i).overflow)
        => AnsweredInOrder(i, j) = AnsweredInOrder(j, i)

\* Two live batches are outstanding; the answer to one of them counts a
\* removed comment, and the answers to both change the lookup.
TwoBatchesOutstanding ==
    \E i, j \in 1..Len(redditRequests) :
        /\ i < j
        /\ ~AnsweredInOrder(i, j).overflow /\ ~AnsweredInOrder(j, i).overflow
        /\ redditResolved(State, i).store # pushshiftCommentLookup
        /\ redditResolved(State, j).store # pushshiftCommentLookup
        /\ AnsweredInOrder(i, j).removed > removed

\* The last queued page of fill f, which was started with a hint, is about
\* to be processed while the paging is over, and the state in which the
\* continuation of Promise.all(pushshiftPromises) then looks at the hint.
HintCalled(f) ==
    /\ fills[f].pc = "proc"
    /\ Len(fills[f].tasks) = 1
    /\ fills[f].hint # 0
HintCall(f) == processPushshiftComments(State, f)
\* The hint h lies within the inclusive bounds [firstCreated, lastCreated]
\* of the current contig of s, as the property C23 reads them.
WithinInclusiveBounds(s, h) ==
    /\ HasCur(s)
    /\ curContig(s).lastCreated # Undefined
    /\ created_utc(h) >= curContig(s).firstCreated
    /\ created_utc(h) <= curContig(s).lastCreated

\* C23: after the pages of a fill have been processed, a hint that the
\* lookup still lacks and whose timestamp lies within the bounds
\* [firstCreated, lastCreated] of the current contig is installed in the
\* lookup as a live record, flagged removed or deleted according to its
\* body, and the fill forgets the hint; a hint whose timestamp lies outside
\* the bounds is not installed.
HintInstalledInBounds ==
    \A f \in 1..MaxFills :
        LET h == fills[f].hint
            s == HintCall(f)
            r == allPushshiftThen(s, f)
        IN  (HintCalled(f) /\ ~has(s.store, h))
            => /\ WithinInclusiveBounds(s, h)
                  => /\ r.store[h] = Flagged(RedditComment(s, h), s.live[h])
                     /\ r.fills[f].pc # "idle" => r.fills[f].hint = 0
               /\ ~WithinInclusiveBounds(s, h) => ~has(r.store, h)

\* The answer to the live batch i is about to arrive and ends the round of
\* fill f, the first fill that waits for it and for no other batch, and the
\* state in which the continuation of Promise.all(this.redditPromises) of
\* fill f then runs.
RoundEnds(i, f) ==
    /\ i \in 1..Len(redditRequests)
    /\ redditRequests[i].waiters # <<>>
    /\ f = redditRequests[i].waiters[1]
    /\ fills[f].pc = "reddit"
    /\ \A j \in 1..Len(redditRequests) :
          j # i => \A k \in 1..Len(redditRequests[j].waiters) :
                      redditRequests[j].waiters[k] # f
    /\ ~redditAnswered(State, i).stop
RoundEnd(i) == redditAnswered(State, i)

\* C24 as stated: at the end of a round that was not cancelled the fill is
\* repeated with the target reduced by the number of new archival items
\* exactly when it is persistent, the current contig did not close and the
\* round brought strictly fewer new items than the target less one page;
\* in every other case completion is reported.
RecursesBelowTarget ==
    \A k \in 1..Len(rounds) :
        rounds[k].outcome =
            IF /\ rounds[k].persistent
               /\ rounds[k].open
               /\ rounds[k].count < rounds[k].n - PageSize
            THEN "recursed" ELSE "finalized"

\* C24, amended: at the end of every round that was not cancelled, whether
\* it ends with the answer to a live batch or at once because no live
\* batch is outstanding, the fill is repeated with the target reduced by
\* the number of new archival items exactly when it is persistent, the
\* current contig did not close and the round brought at most the target
\* less one page of new items (also exactly that many); in every other
\* case completion is reported.
RecursesUpToTarget ==
    \A k \in 1..Len(rounds) :
        rounds[k].outcome =
            IF /\ rounds[k].persistent
               /\ rounds[k].open
               /\ rounds[k].count <= rounds[k].n - PageSize
            THEN "recursed" ELSE "finalized"

\* A persistent round has just ended with exactly the target less one page
\* of new items on an open contig, and was repeated.
RoundRepeatedAtTarget ==
    \E k \in 1..Len(rounds) :
        /\ rounds[k].persistent
        /\ rounds[k].open
        /\ rounds[k].count = rounds[k].n - PageSize
        /\ rounds[k].count > 0
        /\ rounds[k].outcome = "recursed"

\* In state s the cursor designates the contig that holds the timestamp
\* first at its start: the contig that began there, or the contig that has
\* absorbed it.
DesignatesContigOf(s, first) ==
    /\ HasCur(s)
    /\ curContig(s).firstCreated <= first
    /\ HasNext(s) => nextContig(s).firstCreated > first

\* The state in which the finally-handler of the getParentComments request
\* k leaves the cursor when the request is answered now.
Expanded(k) == parentsFinally([State EXCEPT !.parents = RemoveAt(@, k)], parents[k])

\* C25: when a context expansion has gone through its chain of ancestors,
\* the cursor designates the contig that was current when the expansion
\* started, also when contigs were inserted before it or merged meanwhile.
CursorRestoredToContig ==
    \A k \in 1..Len(parents) :
        parents[k].first # Undefined
        => DesignatesContigOf(Expanded(k), parents[k].first)

\* C26: when every archival and live request is answered successfully, a
\* persistent fill with a positive target finalizes in the end: the chain
\* of its repeated rounds is finite, also when a full archival page holds
\* only comments the lookup already has.
PersistentFillCompletes ==
    \A f \in 1..MaxFills :
        (fills[f].pc # "idle" /\ fills[f].persistent /\ fills[f].n > 0)
        ~> (fills[f].pc = "idle")

\* The state in which 'load more' calls getComments (lines 301-307).
LoadMoreCall == loadMoreCall([State EXCEPT !.inUpdate = TRUE])

\* The answer to the page request of fill f is the last of its paging, so
\* that the archival result handler runs next (line 537).
PagingEnds(f) ==
    LET items == Page(State, fills[f].after, fills[f].before)
    IN  \/ Len(items) < PageSize
        \/ stopLoading
        \/ fills[f].fetched + Len(items) >= fills[f].n

\* C27: whenever 'load more' starts a fill, and whenever the archival
\* result handler, the error handler or the finalize step of a fill reads
\* the current contig, curContigIdx designates an element of the contig
\* list.
CursorDesignatesContigWhenRead ==
    [][/\ \A n \in LoadMoreCounts : LoadMore(n) => HasCur(LoadMoreCall)
       /\ \A f \in 1..MaxFills :
             /\ PageResolve(f) /\ PagingEnds(f) => HasCur(State)
             /\ PageReject(f) => HasCur(State)
       /\ \A i \in 1..Len(redditRequests) : \A f \in 1..MaxFills :
             RedditResolve(i) /\ RoundEnds(i, f) => HasCur(RoundEnd(i))]_vars

====
